---- MODULE Spec2Model ----
(***************************************************************************)
(* Player control and combat core (src/src/player.rs): the six systems of  *)
(* SystemSet::on_update(GameState::Game), one action each, run once per    *)
(* tick in any order the registered labels allow.                          *)
(*                                                                         *)
(* Units: lengths in 1/100 px, times in ms, health in whole points.        *)
(* f32 arithmetic is modelled by integer arithmetic in these units.        *)
(***************************************************************************)
EXTENDS Integers, Sequences, FiniteSets, TLC

VARIABLES
    gameState,   \* State<GameState>: "Game" or "GameOver"
    stateReq,    \* transition scheduled by State::set in this tick, or None
    phase,       \* "idle" between ticks, "running" while the update set runs
    done,        \* systems of the update set that have run in this tick
    input,       \* the tick's snapshot: keys, space, mouse, cursor, dt
    scale,       \* the window's scale_factor
    pos,         \* player Transform.translation (x, y)
    aim,         \* vector whose angle from Vec2::Y is the player's rotation
    camera,      \* camera Transform.translation (x, y)
    walls,       \* translations of the TileCollider entities, in query order
    collisions,  \* sides returned by collide in this tick's player_movement
    moves,       \* ticks begun so far with the direction keys in play
    health,      \* Health.current of the player
    dmgEvent,    \* this tick's take_damage call <<[before, amount, died]>>, or <<>>
    deaths,      \* number of take_damage calls that returned true
    transitions, \* number of State::set(GameOver) calls
    cooldown,    \* Shooting.cooldown: [elapsed, finished]
    enemies,     \* entities carrying the Enemy component
    despawn,     \* entities queued by commands.entity(e).despawn_recursive()
    rays,        \* cast_ray calls in this tick
    rayHit,      \* <<entity>> returned by this tick's cast_ray, or <<>>
    rayDir,      \* <<direction>> (before normalize) of this tick's ray, or <<>>
    audio,       \* audio.play requests in this tick
    sinceShot,   \* delta passed to cooldown.tick since the last shot (or since
                 \* the timer was created), counted up to WEAPON_COOLDOWN
    droppedPress, \* a fresh press made since the last shot did not fire
    uiRoots,     \* entities carrying PlayerUi
    healthBars,  \* entities carrying HealthBar
    barWidth     \* Val::Percent width of the HealthBar node

vars == <<gameState, stateReq, phase, done, input, scale, pos, aim, camera,
          walls, collisions, moves, health, dmgEvent, deaths, transitions,
          cooldown, enemies, despawn, rays, rayHit, rayDir, audio, sinceShot,
          droppedPress, uiRoots, healthBars, barWidth>>

None == "None"

----------------------------------------------------------------------------
(* Program constants *)

TILE_SIZE == 3200
WIDTH == 128000
HEIGHT == 72000
WEAPON_RANGE == 40000
WEAPON_COOLDOWN == 500
PlayerSpeed == 10
PlayerMaxHealth == 100
DamageBase == 10
DamageSpan == 10

(* Bounds of the model *)

NumEnemies == 2
NumProps == 1
MaxMoves == 2

Enemies == 1 .. NumEnemies
Props == (NumEnemies + 1) .. (NumEnemies + NumProps)

Vec(x, y) == [x |-> x, y |-> y]

KeySets == SUBSET {"W", "A", "S", "D"}
CombatDts == {0, 100, 250}
MoveDts == {16, 100}
\* options are sequences: <<>> is None, <<v>> is Some(v)
Cursors == {<<>>, <<Vec(94000, 36000)>>, <<Vec(64000, 66000)>>}
ScaleFactors == {1, 2}
\* distances along the ray at which the scene may report its first collider
Tois == {WEAPON_RANGE \div 2, 2 * WEAPON_RANGE}
\* rand::thread_rng().gen::<f32>() is in [0, 1): the part added to the base
DamageAmounts == {DamageBase + r : r \in 0 .. (DamageSpan - 1)}

\* obstacle layouts: none; one tile right of the player; a corner of two
\* tiles on the grid; a floor tile and a tile above it leaving a gap lower
\* than the player, in both query orders
WallLayouts ==
    { <<>>,
      <<Vec(TILE_SIZE, 0)>>,
      <<Vec(TILE_SIZE, 0), Vec(0, TILE_SIZE)>>,
      <<Vec(TILE_SIZE, TILE_SIZE - 200), Vec(TILE_SIZE, -TILE_SIZE)>>,
      <<Vec(TILE_SIZE, -TILE_SIZE), Vec(TILE_SIZE, TILE_SIZE - 200)>> }

NoInput == [keys |-> {}, space |-> FALSE, mouse |-> FALSE, cursor |-> <<>>, dt |-> 0]

----------------------------------------------------------------------------
(* The schedule: SystemSet::on_update(GameState::Game) *)

Systems == {"player_movement", "camera_follow", "player_aim", "player_shoot",
            "damage_yourself", "update_ui"}

\* mutant: camera_follow is registered without .after("player_movement")
AfterCameraFree(s) ==
    CASE s = "player_aim" -> {"player_movement"}
      [] s = "player_shoot" -> {"player_aim"}
      [] OTHER -> {}

\* mutant: player_shoot is registered without .after("player_aim")
AfterShootFree(s) ==
    CASE s = "camera_follow" -> {"player_movement"}
      [] s = "player_aim" -> {"player_movement"}
      [] OTHER -> {}

\* the systems a system is registered .after()
After(s) ==
    CASE s = "camera_follow" -> {"player_movement"}
      [] s = "player_aim" -> {"player_movement"}
      [] s = "player_shoot" -> {"player_aim"}
      [] OTHER -> {}

CanRun(s) == phase = "running" /\ s \notin done /\ After(s) \subseteq done

----------------------------------------------------------------------------
(* Timer (non-repeating), as player_shoot uses it *)

Min(a, b) == IF a < b THEN a ELSE b

TimerNew == [elapsed |-> 0, finished |-> FALSE]

\* mutant: the timer finishes only once it has passed its duration
TimerTickStrict(t, dt) ==
    IF t.finished THEN t
    ELSE IF t.elapsed + dt > WEAPON_COOLDOWN
         THEN [elapsed |-> WEAPON_COOLDOWN, finished |-> TRUE]
         ELSE [elapsed |-> Min(t.elapsed + dt, WEAPON_COOLDOWN), finished |-> FALSE]

TimerTick(t, dt) ==
    IF t.finished THEN t
    ELSE IF t.elapsed + dt >= WEAPON_COOLDOWN
         THEN [elapsed |-> WEAPON_COOLDOWN, finished |-> TRUE]
         ELSE [elapsed |-> t.elapsed + dt, finished |-> FALSE]

\* mutant: the reset leaves half of the duration elapsed
TimerResetHalf(t) == [elapsed |-> WEAPON_COOLDOWN \div 2, finished |-> FALSE]

TimerReset(t) == [elapsed |-> 0, finished |-> FALSE]

----------------------------------------------------------------------------
(* Health (crate::unit), from its description *)

\* take_damage: subtract, clamp to [0, max], report current == 0
take_damage(current, amount) ==
    LET raw == current - amount
        h == IF raw < 0 THEN 0 ELSE IF raw > PlayerMaxHealth THEN PlayerMaxHealth ELSE raw
    IN [health |-> h, died |-> (h = 0)]

----------------------------------------------------------------------------
(* UI subtree *)

ui_setup == [uiRoots |-> 1, healthBars |-> 1, barWidth |-> 100]

\* mutant: the despawn is not recursive, the HealthBar node stays
drop_ui_shallow == [uiRoots |-> 0, healthBars |-> 1, barWidth |-> 0]

drop_ui == [uiRoots |-> 0, healthBars |-> 0, barWidth |-> 0]

----------------------------------------------------------------------------
(* Movement and collision *)

Abs(n) == IF n < 0 THEN -n ELSE n

\* mutant: opposing keys do not cancel, up and right win
DirectionNoCancel(keys) ==
    Vec(IF "D" \in keys THEN 1 ELSE IF "A" \in keys THEN -1 ELSE 0,
        IF "W" \in keys THEN 1 ELSE IF "S" \in keys THEN -1 ELSE 0)

\* the direction summed from the held keys
Direction(keys) ==
    Vec((IF "D" \in keys THEN 1 ELSE 0) - (IF "A" \in keys THEN 1 ELSE 0),
        (IF "W" \in keys THEN 1 ELSE 0) - (IF "S" \in keys THEN 1 ELSE 0))

\* a component of direction.normalize(), in 1/10000: 1 or 1/sqrt(2)
UnitE4(dir) == IF dir.x # 0 /\ dir.y # 0 THEN 7071 ELSE 10000

\* mutant: the TILE_SIZE factor is missing
TentativeNoTile(p, dir, dt) ==
    LET len == (((PlayerSpeed * dt) \div 1000) * UnitE4(dir)) \div 10000
    IN Vec(p.x + dir.x * len, p.y + dir.y * len)

\* translation + direction.normalize() * speed * TILE_SIZE * delta_seconds
Tentative(p, dir, dt) ==
    LET len == (((PlayerSpeed * TILE_SIZE * dt) \div 1000) * UnitE4(dir)) \div 10000
    IN Vec(p.x + dir.x * len, p.y + dir.y * len)

\* sprite.custom_size * transform.scale (custom_size is splat(TILE_SIZE), scale 1)
PlayerSize == Vec(TILE_SIZE, TILE_SIZE)

\* bevy::sprite::collide_aabb::collide
collide(a_pos, a_size, b_pos, b_size) ==
    LET a_min == Vec(a_pos.x - a_size.x \div 2, a_pos.y - a_size.y \div 2)
        a_max == Vec(a_pos.x + a_size.x \div 2, a_pos.y + a_size.y \div 2)
        b_min == Vec(b_pos.x - b_size.x \div 2, b_pos.y - b_size.y \div 2)
        b_max == Vec(b_pos.x + b_size.x \div 2, b_pos.y + b_size.y \div 2)
        xLeft == a_min.x < b_min.x /\ a_max.x > b_min.x /\ a_max.x < b_max.x
        xRight == a_min.x > b_min.x /\ a_min.x < b_max.x /\ a_max.x > b_max.x
        yBottom == a_min.y < b_min.y /\ a_max.y > b_min.y /\ a_max.y < b_max.y
        yTop == a_min.y > b_min.y /\ a_min.y < b_max.y /\ a_max.y > b_max.y
        x_collision == IF xLeft THEN "Left" ELSE IF xRight THEN "Right" ELSE "Inside"
        y_collision == IF yBottom THEN "Bottom" ELSE IF yTop THEN "Top" ELSE "Inside"
        \* penetration depths; an Inside axis has infinite depth
        x_depth == IF xLeft THEN Abs(b_min.x - a_max.x)
                   ELSE IF xRight THEN Abs(a_min.x - b_max.x) ELSE -1
        y_depth == IF yBottom THEN Abs(b_min.y - a_max.y)
                   ELSE IF yTop THEN Abs(a_min.y - b_max.y) ELSE -1
        yLess == y_depth # -1 /\ (x_depth = -1 \/ y_depth < x_depth)
    IN IF a_min.x < b_max.x /\ a_max.x > b_min.x /\ a_min.y < b_max.y /\ a_max.y > b_min.y
       THEN (IF yLess THEN y_collision ELSE x_collision)
       ELSE None

\* mutant: the push-out is half a tile
CorrectHalf(target, wall, side) ==
    CASE side = "Bottom" -> Vec(target.x, wall.y - TILE_SIZE \div 2)
      [] side = "Top" -> Vec(target.x, wall.y + TILE_SIZE \div 2)
      [] side = "Left" -> Vec(wall.x - TILE_SIZE \div 2, target.y)
      [] side = "Right" -> Vec(wall.x + TILE_SIZE \div 2, target.y)
      [] OTHER -> target

\* mutant: the push-out also snaps the other coordinate to the wall's
CorrectSnapBoth(target, wall, side) ==
    CASE side = "Bottom" -> Vec(wall.x, wall.y - TILE_SIZE)
      [] side = "Top" -> Vec(wall.x, wall.y + TILE_SIZE)
      [] side = "Left" -> Vec(wall.x - TILE_SIZE, wall.y)
      [] side = "Right" -> Vec(wall.x + TILE_SIZE, wall.y)
      [] OTHER -> target

\* the match on the Collision returned for one wall
Correct(target, wall, side) ==
    CASE side = "Bottom" -> Vec(target.x, wall.y - TILE_SIZE)
      [] side = "Top" -> Vec(target.x, wall.y + TILE_SIZE)
      [] side = "Left" -> Vec(wall.x - TILE_SIZE, target.y)
      [] side = "Right" -> Vec(wall.x + TILE_SIZE, target.y)
      [] OTHER -> target

\* mutant: every wall is tested against the tentative position
RECURSIVE ResolveFromTentative(_, _, _, _)
ResolveFromTentative(target, ws, i, log) ==
    IF i > Len(ws) THEN [target |-> target, log |-> log]
    ELSE LET tentative == IF log = <<>> THEN target ELSE log[1].at
             side == collide(tentative, PlayerSize, ws[i], Vec(TILE_SIZE, TILE_SIZE))
         IN ResolveFromTentative(Correct(target, ws[i], side), ws, i + 1,
                                 Append(log, [wall |-> i, side |-> side, at |-> tentative]))

\* the loop over wall_query: the corrected target and the side found per wall
RECURSIVE Resolve(_, _, _, _)
Resolve(target, ws, i, log) ==
    IF i > Len(ws) THEN [target |-> target, log |-> log]
    ELSE LET side == collide(target, PlayerSize, ws[i], Vec(TILE_SIZE, TILE_SIZE))
         IN Resolve(Correct(target, ws[i], side), ws, i + 1,
                    Append(log, [wall |-> i, side |-> side, at |-> target]))

----------------------------------------------------------------------------
(* Weapon *)

\* rapier_context.cast_ray: the first solid hit along the ray, if within max_toi
cast_ray(first, toi, max_toi) == IF first # <<>> /\ toi <= max_toi THEN first ELSE <<>>

\* mutant: the early return is missing
CooldownGateOpen(t) == TRUE

\* the early return on !shooting.cooldown.finished()
CooldownGate(t) == t.finished

\* mutant: the button test is missing, a ready weapon fires by itself
FirePressedAny(inp) == TRUE

\* buttons.just_pressed(MouseButton::Left)
FirePressed(inp) == inp.mouse

\* mutant: the despawn is missing
DespawnNothing(hit, targetable) == {}

\* mutant: the hit entity is despawned without the Enemy test
DespawnAnyHit(hit, targetable) == IF hit # <<>> THEN {hit[1]} ELSE {}

\* mutant: any hit despawns every Enemy
DespawnEveryEnemy(hit, targetable) == IF hit # <<>> THEN targetable ELSE {}

\* the loop over enemies_query: the entities queued for despawn
DespawnTargets(hit, targetable) ==
    IF hit # <<>> /\ hit[1] \in targetable THEN {hit[1]} ELSE {}

\* target * scale_factor - window_size / 2
RayTarget(cursor, sf) == Vec(cursor.x * sf - WIDTH \div 2, cursor.y * sf - HEIGHT \div 2)

\* target - window_size / 2
AimTarget(cursor) == Vec(cursor.x - WIDTH \div 2, cursor.y - HEIGHT \div 2)

----------------------------------------------------------------------------
(* Initial state: the player bundle spawned, GameState::Game entered *)

InitWith(wallChoices, scales) ==
    /\ gameState = "Game"
    /\ stateReq = None
    /\ phase = "idle"
    /\ done = {}
    /\ input = NoInput
    /\ scale \in scales
    /\ pos = Vec(0, 0)
    /\ aim = Vec(0, 1)
    /\ camera = Vec(0, 0)
    /\ walls \in wallChoices
    /\ collisions = <<>>
    /\ moves = 0
    /\ health = PlayerMaxHealth
    /\ dmgEvent = <<>>
    /\ deaths = 0
    /\ transitions = 0
    /\ cooldown = TimerNew
    /\ enemies = Enemies
    /\ despawn = {}
    /\ rays = 0
    /\ rayHit = <<>>
    /\ rayDir = <<>>
    /\ audio = 0
    /\ sinceShot = 0
    /\ droppedPress = FALSE
    /\ uiRoots = ui_setup.uiRoots
    /\ healthBars = ui_setup.healthBars
    /\ barWidth = ui_setup.barWidth

----------------------------------------------------------------------------
(* One tick of the update set *)

tickObs == <<collisions, dmgEvent, despawn, rays, rayHit, rayDir, audio>>

\* the frame starts: the input resources are snapshotted
TickBegin(keySets, spaces, mouses, cursors, dts) ==
    /\ phase = "idle"
    /\ gameState = "Game"
    /\ keySets # {{}} => moves < MaxMoves
    /\ moves' = IF keySets # {{}} THEN moves + 1 ELSE moves
    /\ \E k \in keySets, sp \in spaces, mb \in mouses, c \in cursors, dt \in dts :
          input' = [keys |-> k, space |-> sp, mouse |-> mb, cursor |-> c, dt |-> dt]
    /\ phase' = "running"
    /\ done' = {}
    /\ UNCHANGED <<sinceShot, droppedPress>>
    /\ UNCHANGED <<gameState, stateReq, scale, pos, aim, camera, walls, health,
                   deaths, transitions, cooldown, enemies, uiRoots, healthBars,
                   barWidth>>
    /\ UNCHANGED tickObs

\* if direction.length() != 0.0
ShouldMove(direction) == direction # Vec(0, 0)

player_movement ==
    /\ CanRun("player_movement")
    /\ done' = done \cup {"player_movement"}
    /\ UNCHANGED <<sinceShot, droppedPress>>
    /\ LET direction == Direction(input.keys)
       IN IF ShouldMove(direction)
          THEN LET r == Resolve(Tentative(pos, direction, input.dt), walls, 1, <<>>)
               IN pos' = r.target /\ collisions' = r.log
          ELSE UNCHANGED <<pos, collisions>>
    /\ UNCHANGED <<gameState, stateReq, phase, input, scale, aim, camera, walls,
                   moves, health, dmgEvent, deaths, transitions, cooldown, enemies,
                   despawn, rays, rayHit, rayDir, audio, uiRoots, healthBars,
                   barWidth>>

camera_follow ==
    /\ CanRun("camera_follow")
    /\ done' = done \cup {"camera_follow"}
    /\ UNCHANGED <<sinceShot, droppedPress>>
    /\ camera' = Vec(pos.x, pos.y)
    /\ UNCHANGED <<gameState, stateReq, phase, input, scale, pos, aim, walls,
                   collisions, moves, health, dmgEvent, deaths, transitions,
                   cooldown, enemies, despawn, rays, rayHit, rayDir, audio,
                   uiRoots, healthBars, barWidth>>

\* mutant: the factor 100 is missing
HealthFraction(current, max) == current \div max

\* get_health() / get_max_health() * 100.0
HealthPercent(current, max) == (current * 100) \div max

update_ui ==
    /\ CanRun("update_ui")
    /\ uiRoots = 1 /\ healthBars = 1
    /\ done' = done \cup {"update_ui"}
    /\ UNCHANGED <<sinceShot, droppedPress>>
    /\ barWidth' = HealthPercent(health, PlayerMaxHealth)
    /\ UNCHANGED <<gameState, stateReq, phase, input, scale, pos, aim, camera,
                   walls, collisions, moves, health, dmgEvent, deaths,
                   transitions, cooldown, enemies, despawn, rays, rayHit, rayDir,
                   audio, uiRoots, healthBars>>

\* mutant: death never requests the transition
SetGameOverNever(died) == UNCHANGED <<stateReq, transitions>>

\* mutant: every damage input requests the transition
SetGameOverAlways(died) ==
    /\ stateReq = None
    /\ stateReq' = "GameOver"
    /\ transitions' = transitions + 1

\* if take_damage(..) { state.set(GameState::GameOver).expect(..) }: set fails
\* (and expect panics) when a transition is already scheduled
SetGameOver(died) ==
    IF died
    THEN /\ stateReq = None
         /\ stateReq' = "GameOver"
         /\ transitions' = transitions + 1
    ELSE UNCHANGED <<stateReq, transitions>>

damage_yourself ==
    /\ CanRun("damage_yourself")
    /\ done' = done \cup {"damage_yourself"}
    /\ UNCHANGED <<sinceShot, droppedPress>>
    /\ IF input.space
       THEN \E amount \in DamageAmounts :
              LET r == take_damage(health, amount)
              IN /\ health' = r.health
                 /\ dmgEvent' = <<[before |-> health, amount |-> amount, died |-> r.died]>>
                 /\ deaths' = IF r.died THEN deaths + 1 ELSE deaths
                 /\ SetGameOver(r.died)
       ELSE UNCHANGED <<health, dmgEvent, deaths, stateReq, transitions>>
    /\ UNCHANGED <<gameState, phase, input, scale, pos, aim, camera, walls,
                   collisions, moves, cooldown, enemies, despawn, rays, rayHit,
                   rayDir, audio, uiRoots, healthBars, barWidth>>

\* mutant: without a cursor position the rotation is reset to facing up
AimRotationReset(cursor, current) ==
    IF cursor # <<>> THEN AimTarget(cursor[1]) ELSE Vec(0, 1)

\* if let Some(target) = ..cursor_position() { rotation = angle to target }
AimRotation(cursor, current) ==
    IF cursor # <<>> THEN AimTarget(cursor[1]) ELSE current

player_aim ==
    /\ CanRun("player_aim")
    /\ done' = done \cup {"player_aim"}
    /\ UNCHANGED <<sinceShot, droppedPress>>
    /\ aim' = AimRotation(input.cursor, aim)
    /\ UNCHANGED <<gameState, stateReq, phase, input, scale, pos, camera, walls,
                   collisions, moves, health, dmgEvent, deaths, transitions,
                   cooldown, enemies, despawn, rays, rayHit, rayDir, audio,
                   uiRoots, healthBars, barWidth>>

player_shoot ==
    /\ CanRun("player_shoot")
    /\ done' = done \cup {"player_shoot"}
    /\ LET ticked == TimerTick(cooldown, input.dt)
       IN IF CooldownGate(ticked) /\ input.cursor # <<>> /\ FirePressed(input)
          THEN \E first \in ({<<>>} \cup {<<e>> : e \in enemies \cup Props}), toi \in Tois :
                 LET hit == cast_ray(first, toi, WEAPON_RANGE)
                 IN /\ rays' = rays + 1
                    /\ rayHit' = hit
                    /\ rayDir' = <<RayTarget(input.cursor[1], scale)>>
                    /\ despawn' = despawn \cup DespawnTargets(hit, enemies)
                    /\ audio' = audio + 1
                    /\ cooldown' = TimerReset(ticked)
                    /\ sinceShot' = 0
                    /\ droppedPress' = FALSE
          ELSE /\ cooldown' = ticked
               /\ sinceShot' = Min(sinceShot + input.dt, WEAPON_COOLDOWN)
               /\ droppedPress' = (droppedPress \/ input.mouse)
               /\ UNCHANGED <<rays, rayHit, rayDir, despawn, audio>>
    /\ UNCHANGED <<gameState, stateReq, phase, input, scale, pos, aim, camera,
                   walls, collisions, moves, health, dmgEvent, deaths,
                   transitions, enemies, uiRoots, healthBars, barWidth>>

\* the stage ends: commands are applied and a scheduled transition is taken,
\* running the on_exit(GameState::Game) set
TickEnd ==
    /\ phase = "running"
    /\ done = Systems
    /\ phase' = "idle"
    /\ done' = {}
    /\ UNCHANGED <<sinceShot, droppedPress>>
    /\ input' = NoInput
    /\ enemies' = enemies \ despawn
    /\ IF stateReq # None
       THEN /\ gameState' = stateReq
            /\ uiRoots' = drop_ui.uiRoots
            /\ healthBars' = drop_ui.healthBars
            /\ barWidth' = drop_ui.barWidth
       ELSE UNCHANGED <<gameState, uiRoots, healthBars, barWidth>>
    /\ stateReq' = None
    /\ collisions' = <<>>
    /\ dmgEvent' = <<>>
    /\ despawn' = {}
    /\ rays' = 0
    /\ rayHit' = <<>>
    /\ rayDir' = <<>>
    /\ audio' = 0
    /\ UNCHANGED <<scale, pos, aim, camera, walls, moves, health, deaths,
                   transitions, cooldown>>

----------------------------------------------------------------------------
(* Specifications *)

\* weapon play: pointer and fire button vary, the player stands still
Init == InitWith({<<>>}, ScaleFactors)

Next ==
    \/ TickBegin({{}}, {FALSE}, {FALSE, TRUE}, Cursors, CombatDts)
    \/ player_movement
    \/ camera_follow
    \/ player_aim
    \/ player_shoot
    \/ damage_yourself
    \/ update_ui
    \/ TickEnd

Spec == Init /\ [][Next]_vars

\* the damage key varies, nothing else is pressed
InitHealth == InitWith({<<>>}, {1})

NextHealth ==
    \/ TickBegin({{}}, {FALSE, TRUE}, {FALSE}, {<<>>}, {100})
    \/ player_movement
    \/ camera_follow
    \/ player_aim
    \/ player_shoot
    \/ damage_yourself
    \/ update_ui
    \/ TickEnd

SpecHealth == InitHealth /\ [][NextHealth]_vars

\* the direction keys vary, over several obstacle layouts
InitMove == InitWith(WallLayouts, {1})

NextMove ==
    \/ TickBegin(KeySets, {FALSE}, {FALSE}, {<<>>}, MoveDts)
    \/ player_movement
    \/ camera_follow
    \/ player_aim
    \/ player_shoot
    \/ damage_yourself
    \/ update_ui
    \/ TickEnd

SpecMove == InitMove /\ [][NextMove]_vars

----------------------------------------------------------------------------
(* Properties *)

ShootStep == "player_shoot" \notin done /\ "player_shoot" \in done'
MoveStep == "player_movement" \notin done /\ "player_movement" \in done'

\* the cooldown has reached its duration once this tick's delta is added
ReadyAfterDelta == cooldown.elapsed + input.dt >= WEAPON_COOLDOWN

\* C1: a player_shoot step with the cooldown ready after the tick's delta,
\* the pointer inside the window, a fresh press, and a ray whose first hit
\* within range is an Enemy queues exactly that entity for despawn, issues
\* exactly one play request and leaves the cooldown's elapsed time at 0.
C1_HitRemovesTarget ==
    [][(/\ ShootStep
        /\ ReadyAfterDelta
        /\ input.cursor # <<>>
        /\ input.mouse
        /\ rayHit' # <<>>
        /\ rayHit'[1] \in enemies)
       => (/\ despawn' = {rayHit'[1]}
           /\ audio' = 1
           /\ cooldown'.elapsed = 0)]_vars

C1_Witness ==
    /\ "player_shoot" \in done
    /\ input.mouse
    /\ rays = 1
    /\ rayHit # <<>>
    /\ rayHit[1] \in Enemies
    /\ despawn = {rayHit[1]}
    /\ audio = 1
    /\ cooldown.elapsed = 0

\* C2: a player_shoot step with a fresh press while the cooldown, this
\* tick's delta included, is below its duration issues no play request,
\* casts no ray, queues no despawn and only adds the delta to the elapsed time.
C2_BlockedFireNoEffect ==
    [][(/\ ShootStep
        /\ input.mouse
        /\ ~ReadyAfterDelta)
       => (/\ audio' = audio
           /\ rays' = rays
           /\ despawn' = despawn
           /\ enemies' = enemies
           /\ cooldown'.elapsed = cooldown.elapsed + input.dt)]_vars

C2_Witness ==
    /\ "player_shoot" \in done
    /\ input.mouse
    /\ input.cursor # <<>>
    /\ input.dt > 0
    /\ cooldown.elapsed > input.dt
    /\ cooldown.elapsed < WEAPON_COOLDOWN
    /\ rays = 0
    /\ audio = 0

\* C3: a player_shoot step with the cooldown ready, the pointer inside the
\* window and a fresh press, whose ray hits nothing in range or first hits an
\* entity that is no Enemy, issues exactly one play request, queues no
\* despawn and leaves the cooldown's elapsed time at 0.
C3_MissStillFires ==
    [][(/\ ShootStep
        /\ ReadyAfterDelta
        /\ input.cursor # <<>>
        /\ input.mouse
        /\ (rayHit' = <<>> \/ rayHit'[1] \notin enemies))
       => (/\ audio' = 1
           /\ despawn' = {}
           /\ enemies' = enemies
           /\ cooldown'.elapsed = 0)]_vars

C3_Witness ==
    /\ "player_shoot" \in done
    /\ input.mouse
    /\ rays = 1
    /\ rayHit # <<>>
    /\ rayHit[1] \in Props
    /\ despawn = {}
    /\ audio = 1
    /\ cooldown.elapsed = 0

\* C4: the player's health stays in [0, max]; a damage amount that would
\* drive it below 0 leaves exactly 0 and reports death, any other amount is
\* subtracted as it is; death is reported at most once in a run, and exactly
\* once by the time health is 0.
C4_HealthClamped ==
    /\ health \in 0 .. PlayerMaxHealth
    /\ deaths <= 1
    /\ (health = 0) <=> (deaths = 1)
    /\ dmgEvent # <<>> =>
         LET ev == dmgEvent[1]
         IN /\ ev.amount >= 10 /\ ev.amount < 20
            /\ (ev.before - ev.amount <= 0) => (health = 0 /\ ev.died)
            /\ (ev.before - ev.amount > 0) => (health = ev.before - ev.amount /\ ~ev.died)

C4_Witness ==
    /\ dmgEvent # <<>>
    /\ dmgEvent[1].before - dmgEvent[1].amount < 0
    /\ health = 0
    /\ deaths = 1

\* C5: a damage input requests the transition to GameOver exactly when it
\* reports death, at most one transition is ever requested, the state
\* changes only from Game to GameOver on such a request and never changes
\* back, and whenever the state is GameOver health is 0.
C5_GameOverIffDeath ==
    /\ [](/\ gameState = "GameOver" => (health = 0 /\ deaths = 1)
          /\ transitions <= 1
          /\ dmgEvent = <<>> => stateReq = None
          /\ dmgEvent # <<>> => ((stateReq = "GameOver") <=> dmgEvent[1].died)
          /\ (deaths = 1 /\ phase = "idle") => gameState = "GameOver")
    /\ [][gameState # gameState'
          => (gameState = "Game" /\ gameState' = "GameOver" /\ stateReq = "GameOver")]_vars
    /\ [][gameState = "GameOver" => gameState' = "GameOver"]_vars

C5_Witness ==
    /\ gameState = "GameOver"
    /\ health = 0
    /\ transitions = 1

\* whether a correction was applied in this tick's player_movement
Corrected(i) == collisions[i].side \in {"Top", "Bottom", "Left", "Right"}

\* C6: once camera_follow has run in a tick, and so at the end of every
\* tick, the camera's x and y equal the player's x and y as left by that
\* tick's movement and collision correction.
C6_CameraFollowsPlayer ==
    /\ (phase = "running" /\ "camera_follow" \in done) => camera = pos
    /\ (phase = "idle" /\ moves > 0) => camera = pos

C6_Witness ==
    /\ phase = "running"
    /\ done = Systems
    /\ \E i \in 1 .. Len(collisions) : Corrected(i)
    /\ pos # Vec(0, 0)
    /\ camera = pos

TotalOrder == <<"player_movement", "camera_follow", "player_aim", "player_shoot",
                "damage_yourself", "update_ui">>

\* C7 as stated: within a tick no system runs before one that precedes it in
\* Movement, Camera Follow, Aim, Weapon, Damage-input handling, UI Sync.
C7_FixedTotalOrder ==
    \A i \in 1 .. Len(TotalOrder) :
        TotalOrder[i] \in done => \A j \in 1 .. (i - 1) : TotalOrder[j] \in done

\* C7 amended: within a tick player_movement runs before camera_follow and
\* before player_aim, and player_aim runs before player_shoot.
C7_RegisteredOrder ==
    /\ "camera_follow" \in done => "player_movement" \in done
    /\ "player_aim" \in done => "player_movement" \in done
    /\ "player_shoot" \in done => ("player_aim" \in done /\ "player_movement" \in done)

C7_Witness ==
    /\ phase = "running"
    /\ "player_shoot" \in done
    /\ "camera_follow" \notin done
    /\ "update_ui" \in done
    /\ "damage_yourself" \notin done

\* C8 as stated: at the end of every tick the health-bar width is the
\* percentage of the health as it stands at the end of that tick.
C8_BarReflectsFinalHealth ==
    (phase = "running" /\ done = Systems)
        => barWidth = (health * 100) \div PlayerMaxHealth

\* C8 amended: once update_ui has run in a tick, and so at the end of the
\* tick, the health-bar width is the percentage of the health at the end of
\* the tick or, in a tick that applied damage, of the health before it.
C8_BarReflectsHealthSeen ==
    (phase = "running" /\ "update_ui" \in done)
        => \/ barWidth = (health * 100) \div PlayerMaxHealth
           \/ /\ dmgEvent # <<>>
              /\ barWidth = (dmgEvent[1].before * 100) \div PlayerMaxHealth

C8_Witness ==
    /\ phase = "running"
    /\ done = Systems
    /\ dmgEvent # <<>>
    /\ health < PlayerMaxHealth
    /\ barWidth = health

\* the unit vector of a single held key
UnitOf(k) ==
    CASE k = "W" -> Vec(0, 1)
      [] k = "S" -> Vec(0, -1)
      [] k = "D" -> Vec(1, 0)
      [] k = "A" -> Vec(-1, 0)

\* C9: with no obstacles and exactly one direction key held, player_movement
\* moves the player by unit_direction * speed * tile_unit * dt, the other
\* axis unchanged.
C9_SingleDirectionStep ==
    [][\A k \in {"W", "A", "S", "D"} :
         (MoveStep /\ walls = <<>> /\ input.keys = {k})
         => LET dist == (PlayerSpeed * TILE_SIZE * input.dt) \div 1000
            IN pos' = Vec(pos.x + UnitOf(k).x * dist, pos.y + UnitOf(k).y * dist)]_vars

\* from (0, 0), right held, dt 0.016: (5.12, 0)
C9_Witness ==
    /\ "player_movement" \in done
    /\ walls = <<>>
    /\ input.keys = {"D"}
    /\ input.dt = 16
    /\ moves = 1
    /\ pos = Vec(512, 0)

OverlapsX(p, w) == Abs(p.x - w.x) * 2 < PlayerSize.x + TILE_SIZE
OverlapsY(p, w) == Abs(p.y - w.y) * 2 < PlayerSize.y + TILE_SIZE

\* the position written does not overlap wall i on the axis corrected for it
ClearOnCorrectedAxis(i) ==
    LET c == collisions[i]
    IN /\ c.side \in {"Top", "Bottom"} => ~OverlapsY(pos, walls[c.wall])
       /\ c.side \in {"Left", "Right"} => ~OverlapsX(pos, walls[c.wall])

SameAxis(a, b) ==
    \/ {a, b} \subseteq {"Top", "Bottom"}
    \/ {a, b} \subseteq {"Left", "Right"}

\* C10 as stated: for every obstacle classified Top, Bottom, Left or Right
\* the position written does not overlap it on the corrected axis.
C10_NoOverlapOnCorrectedAxis ==
    \A i \in 1 .. Len(collisions) : Corrected(i) => ClearOnCorrectedAxis(i)

\* C10 amended: this holds for every such obstacle after which no other
\* obstacle was corrected on the same axis in the same tick.
C10_LastCorrectionStands ==
    \A i \in 1 .. Len(collisions) :
        (/\ Corrected(i)
         /\ \A j \in (i + 1) .. Len(collisions) :
              ~SameAxis(collisions[i].side, collisions[j].side))
        => ClearOnCorrectedAxis(i)

C10_Witness ==
    /\ "player_movement" \in done
    /\ \E i \in 1 .. Len(collisions) :
         /\ collisions[i].side = "Top"
         /\ collisions[i].at # pos
         /\ \A j \in (i + 1) .. Len(collisions) :
              ~SameAxis(collisions[i].side, collisions[j].side)

-----------------------------------------------------------------------------
(* Cooldown gating, pointer outside the window *)

\* the fire button was freshly pressed with the pointer inside the window
FreshPress == input.mouse /\ input.cursor # <<>>

\* player_shoot fired in this step
Fired == audio' = audio + 1 /\ rays' = rays + 1

\* C11: a fresh press is blocked in every tick in which the delta accumulated
\* since the cooldown was reset (or created), this tick's delta included, is
\* below WEAPON_COOLDOWN, and fires in the first tick in which it reaches
\* WEAPON_COOLDOWN; with ticks of 100 ms that is blocked in ticks 1 to 4 and
\* fired in tick 5.
C11_BlockedUntilDuration ==
    [][(ShootStep /\ FreshPress)
       => /\ (sinceShot + input.dt < WEAPON_COOLDOWN)
               => (audio' = audio /\ rays' = rays /\ despawn' = despawn)
          /\ (sinceShot + input.dt >= WEAPON_COOLDOWN) => Fired]_vars

\* the fourth 100 ms tick after the reset: the press was blocked
C11_Witness ==
    /\ "player_shoot" \in done
    /\ FreshPress
    /\ input.dt = 100
    /\ sinceShot = 400
    /\ ~cooldown.finished
    /\ rays = 0 /\ audio = 0

AimStep == "player_aim" \notin done /\ "player_aim" \in done'

\* C12: with the pointer outside the window, player_shoot plays no sound,
\* casts no ray, queues no entity and does not reset the cooldown (which only
\* receives the tick's delta), even when the cooldown is ready and the button
\* was freshly pressed; player_aim leaves the rotation as it was.
C12_NoCursorNoActivity ==
    /\ [][(ShootStep /\ input.cursor = <<>>)
          => /\ audio' = audio /\ rays' = rays /\ rayHit' = rayHit
             /\ despawn' = despawn /\ enemies' = enemies
             /\ cooldown'.elapsed = Min(cooldown.elapsed + input.dt, WEAPON_COOLDOWN)
             /\ cooldown.finished => cooldown' = cooldown]_vars
    /\ [][(AimStep /\ input.cursor = <<>>) => aim' = aim]_vars

\* a ready weapon and a fresh press without a cursor position, after an
\* earlier tick turned the player
C12_Witness ==
    /\ {"player_aim", "player_shoot"} \subseteq done
    /\ input.cursor = <<>>
    /\ input.mouse
    /\ cooldown.finished
    /\ audio = 0 /\ rays = 0 /\ despawn = {}
    /\ aim = AimTarget(Vec(94000, 36000))

-----------------------------------------------------------------------------
(* Collision loop *)

PushSides == {"Top", "Bottom", "Left", "Right"}

\* C13 as stated: every obstacle is tested against the same tentative
\* position, so its classification is the one found at that position.
C13_SameTentativePosition ==
    \A i \in 1 .. Len(collisions) :
        /\ collisions[i].at = collisions[1].at
        /\ collisions[i].side =
             collide(collisions[1].at, PlayerSize, walls[i], Vec(TILE_SIZE, TILE_SIZE))

\* C13 amended: the first obstacle is tested against the tentative position
\* and every later one against the position as corrected for the obstacles
\* visited before it, which differs from the position the previous obstacle
\* was tested against exactly when that obstacle was corrected.
C13_TestedAtRunningPosition ==
    [][MoveStep
       => LET c == collisions'
          IN /\ c # <<>> => c[1].at = Tentative(pos, Direction(input.keys), input.dt)
             /\ \A i \in 1 .. Len(c) :
                  /\ c[i].side = collide(c[i].at, PlayerSize, walls[i],
                                         Vec(TILE_SIZE, TILE_SIZE))
                  /\ i > 1 => (c[i].at # c[i - 1].at <=> c[i - 1].side \in PushSides)]_vars

\* the second obstacle was classified at a position the first one corrected,
\* and differently from its classification at the tentative position
C13_Witness ==
    /\ "player_movement" \in done
    /\ Len(collisions) = 2
    /\ Corrected(1)
    /\ collisions[2].at # collisions[1].at
    /\ Corrected(2)
    /\ collide(collisions[1].at, PlayerSize, walls[2], Vec(TILE_SIZE, TILE_SIZE)) = "None"

\* the position after the correction for obstacle i
PositionAfter(i) == IF i < Len(collisions) THEN collisions[i + 1].at ELSE pos

\* C14: the correction for one obstacle changes at most one coordinate: Top
\* and Bottom set only y (the obstacle's y plus or minus one tile), Left and
\* Right set only x, Inside and no collision change nothing.
C14_OneCoordinatePerCorrection ==
    \A i \in 1 .. Len(collisions) :
        LET c == collisions[i]
            w == walls[c.wall]
            after == PositionAfter(i)
        IN /\ c.side = "Top" => after = Vec(c.at.x, w.y + TILE_SIZE)
           /\ c.side = "Bottom" => after = Vec(c.at.x, w.y - TILE_SIZE)
           /\ c.side = "Left" => after = Vec(w.x - TILE_SIZE, c.at.y)
           /\ c.side = "Right" => after = Vec(w.x + TILE_SIZE, c.at.y)
           /\ c.side \notin PushSides => after = c.at

\* a Left or Right correction that moved x and left a y that is not the
\* wall's
C14_Witness ==
    /\ "player_movement" \in done
    /\ \E i \in 1 .. Len(collisions) :
         /\ collisions[i].side \in {"Left", "Right"}
         /\ PositionAfter(i).y # walls[i].y
         /\ PositionAfter(i).x # collisions[i].at.x

\* the held keys cancel: none, up+down, left+right, or all four
NetZero(keys) == ("W" \in keys <=> "S" \in keys) /\ ("A" \in keys <=> "D" \in keys)

\* the player's footprint at p overlaps some wall
OverlapsSomeWall(p) ==
    \E i \in 1 .. Len(walls) : OverlapsX(p, walls[i]) /\ OverlapsY(p, walls[i])

\* C15: when the held keys sum to the zero direction, player_movement leaves
\* the position unchanged and tests no obstacle, whatever the delta and the
\* obstacles, those overlapping the player included.
C15_NoKeysNoMovement ==
    [][(MoveStep /\ NetZero(input.keys))
       => (pos' = pos /\ collisions' = collisions)]_vars

\* opposing keys held while the player overlaps a wall
C15_Witness ==
    /\ "player_movement" \in done
    /\ input.keys = {"A", "D"}
    /\ OverlapsSomeWall(pos)
    /\ collisions = <<>>

-----------------------------------------------------------------------------
(* Fire requests *)

\* C16: fire requests are dropped, not queued: a player_shoot step fires (a
\* ray, a sound, a despawn or a cooldown reset) only with a fresh press in
\* that same tick, also when an earlier press was ignored because the
\* cooldown was not ready or the pointer was outside the window.
C16_DroppedNotQueued ==
    [][(ShootStep /\ ~input.mouse)
       => /\ audio' = audio /\ rays' = rays /\ despawn' = despawn
          /\ cooldown'.elapsed >= cooldown.elapsed]_vars

\* an earlier press was ignored; now the weapon is ready, the pointer is
\* inside the window, there is no press, and nothing was fired
C16_Witness ==
    /\ "player_shoot" \in done
    /\ droppedPress
    /\ ~input.mouse
    /\ input.cursor # <<>>
    /\ cooldown.finished
    /\ audio = 0 /\ rays = 0

-----------------------------------------------------------------------------
(* Facing and fired direction *)

\* a vector in whole tens of pixels, small enough to multiply
Coarse(v) == Vec(v.x \div 1000, v.y \div 1000)

\* two non-zero vectors point the same way
SameWay(a, b) ==
    LET u == Coarse(a)
        v == Coarse(b)
    IN /\ u.x * v.y - u.y * v.x = 0
       /\ u.x * v.x + u.y * v.y > 0

\* C17: in every tick in which a shot is fired, for every pointer position
\* and every display scale factor, the ray direction points the same way as
\* the facing player_aim set from the same pointer position.
C17_RayAlongFacing ==
    ("player_shoot" \in done /\ rayDir # <<>>) => SameWay(rayDir[1], aim)

-----------------------------------------------------------------------------
(* Removals *)

\* C18: every entity player_shoot queues for removal is an Enemy and was the
\* first solid hit of a ray cast in that tick; at most one entity is queued
\* per tick; nothing that is not an Enemy (the player, a prop) is queued; an
\* Enemy behind a first hit that is not an Enemy stays; and entities leave
\* the world only by such a queued removal.
C18_OnlyConfirmedHitRemoved ==
    /\ [](/\ despawn \subseteq enemies
          /\ Cardinality(despawn) <= 1
          /\ despawn # {} => (rays = 1 /\ rayHit # <<>> /\ despawn = {rayHit[1]})
          /\ (rayHit # <<>> /\ rayHit[1] \notin Enemies) => despawn = {})
    /\ [][enemies' # enemies
          => (despawn # {} /\ enemies' = enemies \ despawn)]_vars

\* a second removal: an Enemy is queued after an earlier tick removed another
C18_Witness ==
    /\ phase = "running"
    /\ done = Systems
    /\ Cardinality(enemies) = NumEnemies - 1
    /\ rayHit # <<>>
    /\ despawn = {rayHit[1]}
    /\ rayHit[1] \in enemies

-----------------------------------------------------------------------------
(* UI lifecycle *)

UiStep == "update_ui" \notin done /\ "update_ui" \in done'

-----------------------------------------------------------------------------
(* Fire rate *)

\* C20: a shot is fired only when the delta player_shoot has passed to the
\* cooldown since the previous shot (or since the timer was created), this
\* tick's included, is at least WEAPON_COOLDOWN; the cooldown's elapsed time
\* stays within [0, WEAPON_COOLDOWN], is finished exactly at the duration,
\* and in a tick without a shot grows by the tick's delta up to the duration.
C20_FireRateBounded ==
    /\ [](/\ cooldown.elapsed \in 0 .. WEAPON_COOLDOWN
          /\ cooldown.finished <=> cooldown.elapsed = WEAPON_COOLDOWN)
    /\ [][(ShootStep /\ audio' # audio)
          => (sinceShot + input.dt >= WEAPON_COOLDOWN /\ cooldown'.elapsed = 0)]_vars
    /\ [][(ShootStep /\ audio' = audio)
          => cooldown'.elapsed = Min(cooldown.elapsed + input.dt, WEAPON_COOLDOWN)]_vars

\* a later shot: fired after an earlier shot had removed an Enemy
C20_Witness ==
    /\ "player_shoot" \in done
    /\ audio = 1
    /\ sinceShot = 0
    /\ cooldown.elapsed = 0
    /\ enemies # Enemies
    /\ input.dt = 250

====
